---- MODULE Spec2Model ----
(***************************************************************************)
(* Model of the quiz session of src/main.py (class TestMaker): the         *)
(* preference gate, the three question builders and the run_test loop.     *)
(* Pool indices are 0-based as in the source; option lists are 1-based     *)
(* sequences, so that options.index(x)+1 is a position of the sequence.    *)
(***************************************************************************)
EXTENDS Integers, Sequences, FiniteSets, TLC

\* ---------------------------------------------------------------- bounds
MaxPool == 3

\* ------------------------------------------------------------- constants
DefaultChoices == 4

\* a row kept by load_csv: both fields non-empty
Row(term, definition) == [term |-> term, definition |-> definition]

\* rows of the input files: two share a term, two share a definition
Records ==
    {Row("HTTP", "HyperText Transfer Protocol"),
     Row("DNS", "Domain Name System"),
     Row("HTTP", "Domain Name System")}

\* the lists load_csv can return and __init__ accepts (non-empty)
Pools == UNION {[0 .. (n - 1) -> Records] : n \in 1 .. MaxPool}

\* what int(input(...)) can yield in get_user_preferences
InputRange == -1 .. (MaxPool + 1)

VARIABLES
    terms_definitions,  \* self.terms_definitions (index -> record)
    preferences,        \* dict returned by get_user_preferences
    pc,                 \* position of run_test
    loop_i,             \* iterations completed in the current for-loop
    score,
    total_questions,
    used_indices,
    question_number,
    question,           \* the three values returned by the last builder call
    options,
    correct_answer,
    call                \* locals of the last builder call

vars == <<terms_definitions, preferences, pc, loop_i, score, total_questions,
          used_indices, question_number, question, options, correct_answer, call>>

\* ------------------------------------------------------- pure functions
Digit == <<"0", "1", "2", "3", "4", "5", "6", "7", "8", "9">>

RECURSIVE str(_)
str(n) == IF n < 10 THEN Digit[n + 1] ELSE str(n \div 10) \o Digit[(n % 10) + 1]

len(pool) == Cardinality(DOMAIN pool)

\* variant: the used set is ignored
AllIndices(pool, used) == DOMAIN pool

AvailableIndices(pool, used) == {i \in DOMAIN pool : i \notin used}

\* variant: off-by-one comparison
InsufficientLe(available, num_choices) == Cardinality(available) <= num_choices

Insufficient(available, num_choices) == Cardinality(available) < num_choices

\* variant: the correct index is not recorded
KeepUsed(used, correct_idx) == used

MarkUsed(used, correct_idx) == used \cup {correct_idx}

Others(available, correct_idx) == {i \in available : i # correct_idx}

\* variant: the correct index is not excluded
SameCandidates(available, correct_idx) == available

WrongCandidates(available, correct_idx) == {i \in available : i # correct_idx}

\* variant: sampling with replacement
SampleRepeat(S, n) == IF n < 0 THEN {} ELSE [1 .. n -> S]

\* random.sample(list, n): every ordered choice of n distinct elements;
\* empty when n < 0 or n > len(list), where Python raises ValueError
Sample(S, n) ==
    IF n < 0 THEN {}
    ELSE {s \in [1 .. n -> S] : \A a, b \in 1 .. n : a # b => s[a] # s[b]}

\* random.shuffle: every reordering of the list
Shuffle(list) ==
    {[i \in 1 .. Len(list) |-> list[p[i]]] : p \in Permutations(1 .. Len(list))}

\* list.index(x): 0-based position of the first equal element
Index(list, x) ==
    (CHOOSE i \in 1 .. Len(list) :
        list[i] = x /\ \A j \in 1 .. (i - 1) : list[j] # x) - 1

\* variant: the 0-based position is reported
CorrectNumOff(list, x) == str(Index(list, x))

CorrectNum(list, x) == str(Index(list, x) + 1)

\* variant: a wrong answer costs a point
ScorePenalty(s, user_answer, correct) == IF user_answer = correct THEN s + 1 ELSE s - 1

NextScore(s, user_answer, correct) == IF user_answer = correct THEN s + 1 ELSE s

\* ------------------------------------------------------------- builders
NoCall == [kind |-> "none", ret |-> "None", available |-> {},
           correct_idx |-> -1, distractor_indices |-> <<>>, is_true |-> FALSE,
           wrong_idx |-> -1, num_choices |-> 0]

Result(ret, q, opts, ans, used, locals) ==
    [ret |-> ret, question |-> q, options |-> opts, correct_answer |-> ans,
     used |-> used, locals |-> locals]

ReturnNone(used, locals) == Result("None", "None", <<>>, "None", used, locals)

Raise(used, locals) == Result("raise", "None", <<>>, "None", used, locals)

DefinitionText(item) == "What is the definition of '" \o item.term \o "'?"

TermText(item) == "Which term matches this definition: '" \o item.definition \o "'?"

TFText(item, definition) ==
    "True or False: The term '" \o item.term \o "' means '" \o definition \o "'"

\* generate_definition_question / generate_term_question differ only in the
\* field shown as option and in the prompt
ChoiceQuestion(kind, pool, used, num_choices) ==
    LET available == AvailableIndices(pool, used)
        base == [NoCall EXCEPT !.kind = kind,
                               !.available = available, !.num_choices = num_choices]
        shown(i) == IF kind = "definition" THEN pool[i].definition ELSE pool[i].term
        prompt(i) == IF kind = "definition" THEN DefinitionText(pool[i])
                     ELSE TermText(pool[i])
    IN  IF Insufficient(available, num_choices)
        THEN {ReturnNone(used, base)}
        ELSE IF available = {}
        THEN {Raise(used, [base EXCEPT !.ret = "raise"])}
        ELSE UNION {
            LET samples == Sample(Others(available, c), num_choices - 1)
                loc == [base EXCEPT !.correct_idx = c]
            IN  IF samples = {}
                THEN {Raise(MarkUsed(used, c), [loc EXCEPT !.ret = "raise"])}
                ELSE UNION {
                    {Result("question", prompt(c), o, CorrectNum(o, shown(c)),
                            MarkUsed(used, c),
                            [loc EXCEPT !.ret = "question", !.distractor_indices = d])
                     : o \in Shuffle(<<shown(c)>> \o [j \in 1 .. Len(d) |-> shown(d[j])])}
                    : d \in samples}
            : c \in available}

generate_definition_question(pool, used, num_choices) ==
    ChoiceQuestion("definition", pool, used, num_choices)

generate_term_question(pool, used, num_choices) ==
    ChoiceQuestion("term", pool, used, num_choices)

generate_tf_question(pool, used) ==
    LET available == AvailableIndices(pool, used)
        base == [NoCall EXCEPT !.kind = "tf",
                               !.available = available, !.num_choices = 2]
    IN  IF available = {}
        THEN {ReturnNone(used, base)}
        ELSE UNION {UNION {
            LET loc == [base EXCEPT !.correct_idx = c, !.is_true = t]
                item == pool[c]
            IN  IF t
                THEN {Result("question", TFText(item, item.definition),
                             <<"True", "False">>, "1", MarkUsed(used, c),
                             [loc EXCEPT !.ret = "question"])}
                ELSE IF WrongCandidates(available, c) = {}
                THEN {Raise(MarkUsed(used, c), [loc EXCEPT !.ret = "raise"])}
                ELSE {Result("question", TFText(item, pool[w].definition),
                             <<"True", "False">>, "2", MarkUsed(used, c),
                             [loc EXCEPT !.ret = "question", !.wrong_idx = w])
                      : w \in WrongCandidates(available, c)}
            : c \in available} : t \in BOOLEAN}

\* display_question: the answers its input loop lets through
ValidAnswers(opts) == {str(i + 1) : i \in 0 .. (Len(opts) - 1)}

\* ---------------------------------------------------------------- state
NoPreferences == [def_questions |-> 0, def_choices |-> 0, term_questions |-> 0,
                  term_choices |-> 0, tf_questions |-> 0]

Init ==
    /\ terms_definitions \in Pools
    /\ preferences = NoPreferences
    /\ pc = "prefs"
    /\ loop_i = 0
    /\ score = 0
    /\ total_questions = 0
    /\ used_indices = {}
    /\ question_number = 1
    /\ question = "None"
    /\ options = <<>>
    /\ correct_answer = "None"
    /\ call = NoCall

\* get_user_preferences: the inputs that reach the return statement
Accepted(max_possible, dq, dc, tq, tc, fq) ==
    /\ dq >= 0 /\ dq <= max_possible
    /\ dq > 0 => (dc >= 2 /\ dc <= max_possible)
    /\ tq >= 0 /\ tq <= max_possible
    /\ tq > 0 => (tc >= 2 /\ tc <= max_possible)
    /\ fq >= 0 /\ fq <= max_possible
    /\ dq + tq + fq # 0
    /\ dq + tq + fq <= max_possible

GetUserPreferences ==
    /\ pc = "prefs"
    /\ \E dq, dc, tq, tc, fq \in InputRange :
        /\ Accepted(len(terms_definitions), dq, dc, tq, tc, fq)
        /\ preferences' = [def_questions |-> dq,
                           def_choices |-> IF dq > 0 THEN dc ELSE DefaultChoices,
                           term_questions |-> tq,
                           term_choices |-> IF tq > 0 THEN tc ELSE DefaultChoices,
                           tf_questions |-> fq]
    /\ pc' = "def"
    /\ UNCHANGED <<terms_definitions, loop_i, score, total_questions, used_indices,
                   question_number, question, options, correct_answer, call>>

\* one builder call of a run_test loop: the result is stored, None breaks the
\* loop, an exception leaves run_test
BuilderCall(results, asking, after) ==
    \E r \in results :
        /\ used_indices' = r.used
        /\ call' = r.locals
        /\ question' = r.question
        /\ options' = r.options
        /\ correct_answer' = r.correct_answer
        /\ pc' = IF r.ret = "question" THEN asking
                 ELSE IF r.ret = "None" THEN after ELSE "raised"
        /\ loop_i' = IF r.ret = "None" THEN 0 ELSE loop_i
        /\ UNCHANGED <<terms_definitions, preferences, score, total_questions,
                       question_number>>

\* the for-loop ran its range out
LoopExhausted(after) ==
    /\ pc' = after
    /\ loop_i' = 0
    /\ UNCHANGED <<terms_definitions, preferences, score, total_questions,
                   used_indices, question_number, question, options,
                   correct_answer, call>>

\* display_question and the scoring that follows it; the three returned values
\* and the record of the builder's locals are dead after the comparison and
\* are cleared
AnswerQuestion(asking, loop) ==
    /\ pc = asking
    /\ \E user_answer \in ValidAnswers(options) :
        score' = NextScore(score, user_answer, correct_answer)
    /\ total_questions' = total_questions + 1
    /\ question_number' = question_number + 1
    /\ loop_i' = loop_i + 1
    /\ pc' = loop
    /\ question' = "None"
    /\ options' = <<>>
    /\ correct_answer' = "None"
    /\ call' = NoCall
    /\ UNCHANGED <<terms_definitions, preferences, used_indices>>

DefinitionCall ==
    /\ pc = "def"
    /\ loop_i < preferences.def_questions
    /\ BuilderCall(generate_definition_question(terms_definitions, used_indices,
                                                preferences.def_choices),
                   "def_ask", "term")

DefinitionDone ==
    /\ pc = "def"
    /\ loop_i >= preferences.def_questions
    /\ LoopExhausted("term")

DefinitionAnswer == AnswerQuestion("def_ask", "def")

TermCall ==
    /\ pc = "term"
    /\ loop_i < preferences.term_questions
    /\ BuilderCall(generate_term_question(terms_definitions, used_indices,
                                          preferences.term_choices),
                   "term_ask", "tf")

TermDone ==
    /\ pc = "term"
    /\ loop_i >= preferences.term_questions
    /\ LoopExhausted("tf")

TermAnswer == AnswerQuestion("term_ask", "term")

TFCall ==
    /\ pc = "tf"
    /\ loop_i < preferences.tf_questions
    /\ BuilderCall(generate_tf_question(terms_definitions, used_indices),
                   "tf_ask", "results")

TFDone ==
    /\ pc = "tf"
    /\ loop_i >= preferences.tf_questions
    /\ LoopExhausted("results")

TFAnswer == AnswerQuestion("tf_ask", "tf")

\* the final report only prints
DisplayResults ==
    /\ pc = "results"
    /\ pc' = "done"
    /\ UNCHANGED <<terms_definitions, preferences, loop_i, score, total_questions,
                   used_indices, question_number, question, options,
                   correct_answer, call>>

Next ==
    \/ GetUserPreferences
    \/ DefinitionCall
    \/ DefinitionAnswer
    \/ DefinitionDone
    \/ TermCall
    \/ TermAnswer
    \/ TermDone
    \/ TFCall
    \/ TFAnswer
    \/ TFDone
    \/ DisplayResults

Spec == Init /\ [][Next]_vars

\* ------------------------------------------------ scenario of section 8
Pool8 ==
    [i \in 0 .. 3 |->
        <<Row("HTTP", "HyperText Transfer Protocol"),
          Row("DNS", "Domain Name System"),
          Row("TCP", "Transmission Control Protocol"),
          Row("IP", "Internet Protocol")>>[i + 1]]

\* run_test right after get_user_preferences returned the scenario's request:
\* one definition question with four choices
Init8 ==
    /\ terms_definitions = Pool8
    /\ preferences = [def_questions |-> 1, def_choices |-> 4, term_questions |-> 0,
                      term_choices |-> DefaultChoices, tf_questions |-> 0]
    /\ pc = "def"
    /\ loop_i = 0
    /\ score = 0
    /\ total_questions = 0
    /\ used_indices = {}
    /\ question_number = 1
    /\ question = "None"
    /\ options = <<>>
    /\ correct_answer = "None"
    /\ call = NoCall

Next8 ==
    \/ DefinitionCall
    \/ DefinitionAnswer
    \/ DefinitionDone
    \/ TermDone
    \/ TFDone
    \/ DisplayResults

Spec8 == Init8 /\ [][Next8]_vars

\* ---------------------------------------------------------- properties
Range(seq) == {seq[i] : i \in 1 .. Len(seq)}

Asking == pc \in {"def_ask", "term_ask", "tf_ask"}

\* the step is a builder call (its locals are recorded in call')
BuilderActed == call' # call /\ call'.kind # "none"

\* every index the call picked, in any role
Selected(c) ==
    (IF c.correct_idx # -1 THEN {c.correct_idx} ELSE {})
        \cup Range(c.distractor_indices)
        \cup (IF c.wrong_idx # -1 THEN {c.wrong_idx} ELSE {})

Rank(p) ==
    CASE p = "prefs" -> 0
      [] p \in {"def", "def_ask"} -> 1
      [] p \in {"term", "term_ask"} -> 2
      [] p \in {"tf", "tf_ask"} -> 3
      [] p = "results" -> 4
      [] p = "done" -> 5
      [] OTHER -> 6

Requested == preferences.def_questions + preferences.term_questions
                + preferences.tf_questions

\* the text shown as an option of the current choice question for pool index i
Shown(i) ==
    IF call.kind = "definition" THEN terms_definitions[i].definition
    ELSE terms_definitions[i].term

\* C1: the index a builder picks as correct answer is not in used_indices when
\* the call starts, is in it afterwards, and used_indices never loses an index;
\* so the correct-answer indices of a session are pairwise distinct.
C1_CorrectIndicesDistinct ==
    [][/\ used_indices \subseteq used_indices'
       /\ (BuilderActed /\ call'.correct_idx # -1) =>
            /\ call'.correct_idx \notin used_indices
            /\ call'.correct_idx \in used_indices']_vars

C1_Witness ==
    /\ Asking
    /\ Cardinality(used_indices) >= 3
    /\ call.correct_idx \in used_indices

\* C2: a choice question built with k options has exactly k options, its label
\* is one of "1".."k", and the option at that position has the text of the
\* correct record (definition, resp. term), also when texts repeat in the pool.
C2_LabelPointsAtCorrectText ==
    pc \in {"def_ask", "term_ask"} =>
        /\ Len(options) = call.num_choices
        /\ \E i \in 1 .. call.num_choices :
            /\ correct_answer = str(i)
            /\ options[i] = Shown(call.correct_idx)

C2_Witness ==
    /\ pc \in {"def_ask", "term_ask"}
    /\ call.num_choices = 3
    /\ \E i, j \in 1 .. Len(options) :
        /\ i < j
        /\ options[i] = Shown(call.correct_idx)
        /\ options[j] = Shown(call.correct_idx)
        /\ correct_answer = str(i)

\* C3: the session walks prefs, definition block, term block, true/false
\* block, results, done in that order and no builder call aborts it.
C3_LinearNoAbort ==
    [][/\ Rank(pc') >= Rank(pc)
       /\ pc' # "raised"]_vars

\* C4: generate_tf_question returns None exactly when nothing is available and
\* otherwise returns a question with options True/False and label "1" or "2".
C4_TFNoneIffEmpty ==
    [][(BuilderActed /\ call'.kind = "tf") =>
        LET available == {i \in DOMAIN terms_definitions : i \notin used_indices}
        IN  /\ call'.ret = "None" <=> available = {}
            /\ available # {} =>
                /\ call'.ret = "question"
                /\ options' = <<"True", "False">>
                /\ correct_answer' \in {"1", "2"}]_vars

\* C5: a true/false question of polarity True shows the correct record's own
\* definition and has label "1"; of polarity False it shows the definition of
\* another index that was not used when the call started, and has label "2".
C5_TFPolarity ==
    pc = "tf_ask" =>
        LET item == terms_definitions[call.correct_idx]
            text(d) == "True or False: The term '" \o item.term \o "' means '"
                          \o d \o "'"
        IN  IF call.is_true
            THEN /\ question = text(item.definition)
                 /\ correct_answer = "1"
            ELSE /\ call.wrong_idx \in DOMAIN terms_definitions
                 /\ call.wrong_idx # call.correct_idx
                 /\ call.wrong_idx \notin used_indices
                 /\ question = text(terms_definitions[call.wrong_idx].definition)
                 /\ correct_answer = "2"

C5_Witness ==
    /\ pc = "tf_ask"
    /\ ~call.is_true
    /\ used_indices # {call.correct_idx}
    /\ terms_definitions[call.wrong_idx].definition
        = terms_definitions[call.correct_idx].definition

\* C6: a choice builder called with k choices returns None exactly when fewer
\* than k indices are unused and a question otherwise; after None the block is
\* left and that builder is not called again.
C6_NoneIffInsufficient ==
    [][/\ Rank(pc') >= Rank(pc)
       /\ (BuilderActed /\ call'.kind \in {"definition", "term"}) =>
            LET available == {i \in DOMAIN terms_definitions : i \notin used_indices}
                k == IF call'.kind = "definition" THEN preferences.def_choices
                     ELSE preferences.term_choices
            IN  /\ pc = (IF call'.kind = "definition" THEN "def" ELSE "term")
                /\ call'.ret = "None" <=> Cardinality(available) < k
                /\ Cardinality(available) >= k => call'.ret = "question"
                /\ call'.ret = "None" => Rank(pc') > Rank(pc)]_vars

C6_Witness ==
    /\ call.kind = "term"
    /\ call.ret = "None"
    /\ pc = "tf"
    /\ total_questions >= 1

\* C7: 0 <= score <= total_questions <= the number of questions requested;
\* an answered question raises total_questions by exactly 1 and score by at
\* most 1, and nothing else changes either.
C7_ScoreBounds ==
    /\ [](/\ 0 <= score
          /\ score <= total_questions
          /\ pc # "prefs" => total_questions <= Requested)
    /\ [][IF Asking /\ ~Asking'
          THEN /\ total_questions' = total_questions + 1
               /\ score' \in {score, score + 1}
          ELSE /\ total_questions' = total_questions
               /\ score' = score]_vars

C7_Witness ==
    /\ pc = "done"
    /\ total_questions = 3
    /\ score = 1

\* C8 as stated: one question, options a permutation of the four definitions,
\* and the label is the position of "HyperText Transfer Protocol".
C8_LabelAtFirstRecord ==
    /\ pc = "done" => total_questions = 1
    /\ pc = "def_ask" =>
        /\ Len(options) = 4
        /\ Range(options) = {Pool8[i].definition : i \in 0 .. 3}
        /\ \E i \in 1 .. 4 :
            /\ correct_answer = str(i)
            /\ options[i] = "HyperText Transfer Protocol"

\* C8 amended: one question, options a permutation of the four definitions,
\* and the label is the position of the definition of the record drawn as
\* correct answer, which is the first record's only when index 0 was drawn.
C8_LabelAtDrawnRecord ==
    /\ pc = "done" => total_questions = 1
    /\ pc = "def_ask" =>
        /\ Len(options) = 4
        /\ Range(options) = {Pool8[i].definition : i \in 0 .. 3}
        /\ \E i \in 1 .. 4 :
            /\ correct_answer = str(i)
            /\ options[i] = Pool8[call.correct_idx].definition
            /\ options[i] = "HyperText Transfer Protocol" <=> call.correct_idx = 0

C8_Witness ==
    /\ pc = "def_ask"
    /\ call.correct_idx = 2
    /\ correct_answer = "4"
    /\ options[1] = "HyperText Transfer Protocol"

\* C9: used_indices changes only in a builder call and only by gaining the
\* call's correct-answer index, new to the set; a call returning a question
\* does add it, a call returning None adds nothing; between questions the size
\* of used_indices is total_questions.
C9_OnlyCorrectIndexAdded ==
    /\ [](pc \in {"def", "term", "tf", "results", "done"} =>
            Cardinality(used_indices) = total_questions)
    /\ [][/\ used_indices' # used_indices =>
                /\ BuilderActed
                /\ call'.correct_idx \notin used_indices
                /\ used_indices' = used_indices \cup {call'.correct_idx}
          /\ (BuilderActed /\ call'.ret = "question") =>
                used_indices' # used_indices
          /\ (BuilderActed /\ call'.ret = "None") =>
                used_indices' = used_indices]_vars

C9_Witness ==
    /\ pc = "tf_ask"
    /\ ~call.is_true
    /\ total_questions = 1
    /\ Cardinality(used_indices) = 2
    /\ call.wrong_idx \notin used_indices

\* C10: every index a builder picks, as correct answer, distractor or source
\* of a wrong definition, is outside used_indices as it was when the call
\* started.
C10_UsedNeverSelected ==
    [][BuilderActed => Selected(call') \cap used_indices = {}]_vars

C10_Witness ==
    /\ pc \in {"def_ask", "term_ask"}
    /\ Cardinality(used_indices) >= 2
    /\ Len(call.distractor_indices) >= 1
====
